---- MODULE Spec2Model ----
(***************************************************************************)
(* Model of the block buffer of the block synchroniser (package blocksync, *)
(* blockBuffer.Flush / GetBlocksIntervalsToSync / CommitHeight) together   *)
(* with the chain it commits into.                                         *)
(*                                                                         *)
(* Heights are uint64 in the source; the model keeps them far below 2^64,  *)
(* so confirmedHeight+size never wraps.                                    *)
(***************************************************************************)
EXTENDS Integers, Sequences, FiniteSets, TLC

\* ---------------------------------------------------------------- bounds
MaxHeight  == 3      \* greatest height of a block handed to Flush
MaxSize    == 2      \* greatest configured buffer size (window)
MaxInitTip == 1      \* greatest chain tip at construction of the buffer
NumIds     == 2      \* distinct blocks the network may deliver per height
MaxFail    == 1      \* failed commits per behaviour
LeakMaxHeight == 10  \* greatest height in the runs that fill the buffer
MaxRollTip   == 7     \* greatest chain tip seen by the consensus context
MaxDelegates == 3     \* greatest length of the epoch's delegate list
MaxNumDlgs   == 2     \* greatest NumDelegatesPerEpoch of the pool
MaxSubEpochs == 2     \* greatest configured NumSubEpochs
MaxNonce     == 2     \* greatest account or action nonce

\* ------------------------------------------------------ program constants
bCheckinValid    == 1
bCheckinLower    == 2
bCheckinExisting == 3
bCheckinHigher   == 4
bCheckinSkipNil  == 5

\* ------------------------------------------------------------ vocabulary
Heights  == 1..MaxHeight
NoBlock  == 0                       \* absent map entry / no block at a height
ByBuffer == 1                       \* chain entry: committed by this buffer
External == 2                       \* chain entry: committed by another path
NoFail   == 0                       \* "no commit fails in this call"
NilBlock == [height |-> 0, id |-> 0]
Blocks   == [height : Heights, id : 1..NumIds]
NoCall   == 0                       \* outcome field before the first Flush

VARIABLES
    size,          \* blockBuffer.size
    blocks,        \* blockBuffer.blocks : height -> block id, NoBlock = absent
    commitHeight,  \* blockBuffer.commitHeight
    tip,           \* bc.TipHeight()
    chain,         \* per height, how the chain got its block (NoBlock: none)
    commitCalls,   \* per height, the outcomes of the commitBlock calls so far
    last,          \* record of the most recent Flush call
    sync,          \* result of GetBlocksIntervalsToSync while it is the most
                   \* recent call, NoSync otherwise
    roll,          \* rollDPoSCtx: epoch delegates, pool and cfg values, and the
                   \* results of the calls made on it
    mu,            \* blockBuffer.mu: the writer holding it and the readers
    callers,       \* per goroutine, its position in Flush or in
                   \* GetBlocksIntervalsToSync and its local variables
    rewarding,     \* the caller's account in the state manager and the most
                   \* recent Handle call of the rewarding protocol
    svc            \* ChainService: its components, which of them run, and
                   \* the most recent Start and Stop calls

vars == <<size, blocks, commitHeight, tip, chain, commitCalls, last, sync, roll,
          mu, callers, rewarding, svc>>

\* map lookup `_, ok := b.blocks[h]`
Has(bl, h) == h \in DOMAIN bl /\ bl[h] # NoBlock

\* bc.TipHeight()
TipHeight(bc) == bc.tip

\* commitBlock(bc, ap, cs, blk): on success the chain holds blk and its tip
\* is blk's height; on failure the chain is unchanged.  ok is the outcome the
\* environment picks for this call (validation, storage).
commitBlock(bc, h, id, ok) ==
    IF ok /\ h = bc.tip + 1
    THEN [tip |-> h, chain |-> [bc.chain EXCEPT ![h] = ByBuffer]]
    ELSE bc
commitOk(bc, h, ok) == ok /\ h = bc.tip + 1

\* confirmedHeight := b.bc.TipHeight()
\* (variant: the tip is never read, confirmedHeight keeps its zero value)
ConfirmedHeightNeverRead(st) == 0
ConfirmedHeight(st) == TipHeight([tip |-> st.tip, chain |-> st.chain])

\* variants of the head checks: the lookup before the staleness check, no
\* lookup at all, and a window one height too wide
ClassifyExistingFirst(bl, sz, confirmedHeight, blk) ==
    IF blk = NilBlock THEN bCheckinSkipNil
    ELSE IF Has(bl, blk.height) THEN bCheckinExisting
    ELSE IF blk.height <= confirmedHeight THEN bCheckinLower
    ELSE IF blk.height > confirmedHeight + sz THEN bCheckinHigher
    ELSE bCheckinValid
ClassifyOverwrite(bl, sz, confirmedHeight, blk) ==
    IF blk = NilBlock THEN bCheckinSkipNil
    ELSE IF blk.height <= confirmedHeight THEN bCheckinLower
    ELSE IF blk.height > confirmedHeight + sz THEN bCheckinHigher
    ELSE bCheckinValid
ClassifyWideWindow(bl, sz, confirmedHeight, blk) ==
    IF blk = NilBlock THEN bCheckinSkipNil
    ELSE IF blk.height <= confirmedHeight THEN bCheckinLower
    ELSE IF Has(bl, blk.height) THEN bCheckinExisting
    ELSE IF blk.height > confirmedHeight + sz + 1 THEN bCheckinHigher
    ELSE bCheckinValid

\* (variant: the staleness check lets a block at the tip's own height through)
ClassifyLowerStrict(bl, sz, confirmedHeight, blk) ==
    IF blk = NilBlock THEN bCheckinSkipNil
    ELSE IF blk.height < confirmedHeight THEN bCheckinLower
    ELSE IF Has(bl, blk.height) THEN bCheckinExisting
    ELSE IF blk.height > confirmedHeight + sz THEN bCheckinHigher
    ELSE bCheckinValid

\* the checks at the head of Flush, in the order of the code
Classify(bl, sz, confirmedHeight, blk) ==
    IF blk = NilBlock THEN bCheckinSkipNil
    ELSE IF blk.height <= confirmedHeight THEN bCheckinLower
    ELSE IF Has(bl, blk.height) THEN bCheckinExisting
    ELSE IF blk.height > confirmedHeight + sz THEN bCheckinHigher
    ELSE bCheckinValid

\* for heightToSync = confirmedHeight + 1; ...
DrainStartAtBlock(confirmedHeight, blkHeight) == blkHeight
DrainStart(confirmedHeight, blkHeight) == confirmedHeight + 1

\* b.commitHeight = heightToSync
SetCommitHeightCount(heightToSync, confirmedHeight) == heightToSync - confirmedHeight
SetCommitHeightNext(heightToSync, confirmedHeight) == heightToSync + 1
SetCommitHeight(heightToSync, confirmedHeight) == heightToSync

\* ...; heightToSync <= confirmedHeight+b.size; heightToSync++
DrainLimitExclusive(confirmedHeight, sz) == confirmedHeight + sz - 1
DrainLimit(confirmedHeight, sz) == confirmedHeight + sz

\* the drain loop of Flush; st carries the buffer, the chain and the calls
\* made so far, failAt is the height whose commit fails (NoFail: none)
RECURSIVE Drain(_, _, _, _)
Drain(st, heightToSync, confirmedHeight, failAt) ==
    IF heightToSync > DrainLimit(confirmedHeight, st.size)
    THEN [st EXCEPT !.heightToSync = heightToSync]
    ELSE IF ~Has(st.blocks, heightToSync)
    THEN [st EXCEPT !.heightToSync = heightToSync]
    ELSE
      LET id  == st.blocks[heightToSync]
          del == [st EXCEPT !.blocks[heightToSync] = NoBlock]
          bc  == [tip |-> st.tip, chain |-> st.chain]
          ok  == commitOk(bc, heightToSync, heightToSync # failAt)
          bc2 == commitBlock(bc, heightToSync, id, heightToSync # failAt)
          call == [height |-> heightToSync, id |-> id, tipAt |-> st.tip, ok |-> ok]
      IN IF ~ok
         THEN [del EXCEPT !.heightToSync = heightToSync,
                          !.commits = Append(@, call)]
         ELSE \* next iteration, on the state this one leaves
              CHOOSE out \in
                  {Drain(nxt, heightToSync + 1, confirmedHeight, failAt) :
                     nxt \in {[del EXCEPT !.tip = bc2.tip, !.chain = bc2.chain,
                                          !.commitHeight = SetCommitHeight(heightToSync, confirmedHeight),
                                          !.commits = Append(@, call)]}} : TRUE

\* "clean up on memory leak"
\* (variant: the purge spares the entry at the tip's own height)
CleanupBelowTip(bl, sz, confirmedHeight) ==
    IF Cardinality({h \in DOMAIN bl : bl[h] # NoBlock}) > sz * 2
    THEN [h \in DOMAIN bl |-> IF h < confirmedHeight THEN NoBlock ELSE bl[h]]
    ELSE bl
Cleanup(bl, sz, confirmedHeight) ==
    IF Cardinality({h \in DOMAIN bl : bl[h] # NoBlock}) > sz * 2
    THEN [h \in DOMAIN bl |-> IF h <= confirmedHeight THEN NoBlock ELSE bl[h]]
    ELSE bl

\* return heightToSync > blkHeight
FlushReturnInclusive(heightToSync, blkHeight) == heightToSync >= blkHeight
FlushReturn(heightToSync, blkHeight) == heightToSync > blkHeight

\* (variant: the drain runs on every call, whatever the outcome of the checks)
FlushResultAlwaysDrain(st, blk, failAt) ==
    LET confirmedHeight == ConfirmedHeight(st)
        res == Classify(st.blocks, st.size, confirmedHeight, blk)
        ins == IF res = bCheckinValid
               THEN [st EXCEPT !.blocks[blk.height] = blk.id] ELSE st
        d   == Drain(ins, DrainStart(confirmedHeight, blk.height),
                     confirmedHeight, failAt)
    IN [d EXCEPT !.blocks = Cleanup(d.blocks, d.size, confirmedHeight),
                 !.ret = res = bCheckinValid
                         /\ FlushReturn(d.heightToSync, blk.height),
                 !.res = res]

\* the whole of Flush as a function of the state it runs in
FlushResult(st, blk, failAt) ==
    LET confirmedHeight == ConfirmedHeight(st)
        res == Classify(st.blocks, st.size, confirmedHeight, blk)
    IN IF res # bCheckinValid
       THEN [st EXCEPT !.ret = FALSE, !.res = res]
       ELSE LET ins == [st EXCEPT !.blocks[blk.height] = blk.id]
                d   == Drain(ins, DrainStart(confirmedHeight, blk.height),
                             confirmedHeight, failAt)
            IN [d EXCEPT !.blocks = Cleanup(d.blocks, d.size, confirmedHeight),
                         !.ret = FlushReturn(d.heightToSync, blk.height),
                         !.res = bCheckinValid]

Snapshot == [tip |-> tip, blocks |-> blocks, commitHeight |-> commitHeight]

CallState == [size |-> size, blocks |-> blocks, commitHeight |-> commitHeight,
              tip |-> tip, chain |-> chain, commits |-> <<>>,
              heightToSync |-> 0, ret |-> FALSE, res |-> NoCall]

RECURSIVE Record(_, _)
Record(calls, commits) ==
    IF commits = <<>> THEN calls
    ELSE Record([calls EXCEPT ![Head(commits).height] = Append(@, Head(commits).ok)],
                Tail(commits))

RECURSIVE NumFailed(_, _)
NumFailed(calls, h) ==
    IF h = 0 THEN 0
    ELSE Cardinality({i \in 1..Len(calls[h]) : ~calls[h][i]}) + NumFailed(calls, h - 1)

\* the scan loop of GetBlocksIntervalsToSync
RECURSIVE ScanIntervals(_, _, _, _, _, _)
ScanIntervals(bl, h, targetHeight, start, startSet, bi) ==
    IF h > targetHeight
    THEN [start |-> start, startSet |-> startSet, bi |-> bi]
    ELSE IF ~Has(bl, h)
    THEN ScanIntervals(bl, h + 1, targetHeight,
                       IF startSet THEN start ELSE h, TRUE, bi)
    ELSE IF startSet
    THEN ScanIntervals(bl, h + 1, targetHeight, start, FALSE,
                       Append(bi, [Start |-> start, End |-> h - 1]))
    ELSE ScanIntervals(bl, h + 1, targetHeight, start, startSet, bi)

\* (variant: the scan starts one height above the first missing candidate)
GetBlocksIntervalsToSyncSkipNext(bl, confirmedHeight, sz, target) ==
    IF confirmedHeight >= target THEN <<>>
    ELSE LET targetHeight == IF target > confirmedHeight + sz
                             THEN confirmedHeight + sz ELSE target
             s == ScanIntervals(bl, confirmedHeight + 2, targetHeight, 0, FALSE, <<>>)
         IN IF ~Has(bl, targetHeight)
            THEN Append(s.bi, [Start |-> IF s.startSet THEN s.start ELSE targetHeight,
                               End |-> targetHeight])
            ELSE s.bi

GetBlocksIntervalsToSync(bl, confirmedHeight, sz, target) ==
    IF confirmedHeight >= target THEN <<>>
    ELSE LET targetHeight == IF target > confirmedHeight + sz
                             THEN confirmedHeight + sz ELSE target
             s == ScanIntervals(bl, confirmedHeight + 1, targetHeight, 0, FALSE, <<>>)
         IN IF ~Has(bl, targetHeight)
            THEN Append(s.bi, [Start |-> IF s.startSet THEN s.start ELSE targetHeight,
                               End |-> targetHeight])
            ELSE s.bi

\* b.CommitHeight()
CommitHeight == commitHeight

NoSync == [called |-> FALSE, target |-> 0, bi |-> <<>>]

\* ------------------------------------------------------------- rolldpos
\* error values and the runtime panic of an integer division by zero
ErrNone         == "nil"
ErrChain        == "chain error"
ErrPool         == "pool error"
ErrZeroDelegate == "zero delegate"
DivideByZero    == "panic: integer divide by zero"

DelegateNames == <<"A", "B", "C", "D", "E">>
Delegates     == {DelegateNames[i] : i \in 1..MaxDelegates}
NoProposer    == ""
Ctxs          == {"node1", "node2"}     \* independent rollDPoSCtx instances

\* ctx.chain.TipHeight()
ChainTipHeight(t, fails) ==
    IF fails THEN [height |-> 0, err |-> ErrChain]
    ELSE [height |-> t, err |-> ErrNone]

\* ctx.pool.NumDelegatesPerEpoch()
NumDelegatesPerEpoch(n, fails) ==
    IF fails THEN [num |-> 0, err |-> ErrPool]
    ELSE [num |-> n, err |-> ErrNone]

\* the Go slice index delegates[i], i counted from 0
At(delegates, i) == delegates[i + 1]

\* (variant: the proposer is picked by the tip, before the increment)
rotatedProposerAtTip(tipHeight, delegates) ==
    IF tipHeight.err # ErrNone
    THEN [proposer |-> NoProposer, height |-> 0, err |-> tipHeight.err]
    ELSE LET height == tipHeight.height + 1
             numDelegates == Len(delegates)
         IN IF numDelegates = 0
            THEN [proposer |-> NoProposer, height |-> 0, err |-> ErrZeroDelegate]
            ELSE [proposer |-> At(delegates, tipHeight.height % numDelegates),
                  height |-> height, err |-> ErrNone]
\* (variant: the height is returned next to the zero-delegate error)
rotatedProposerKeepsHeight(tipHeight, delegates) ==
    IF tipHeight.err # ErrNone
    THEN [proposer |-> NoProposer, height |-> 0, err |-> tipHeight.err]
    ELSE LET height == tipHeight.height + 1
             numDelegates == Len(delegates)
         IN IF numDelegates = 0
            THEN [proposer |-> NoProposer, height |-> height, err |-> ErrZeroDelegate]
            ELSE [proposer |-> At(delegates, height % numDelegates),
                  height |-> height, err |-> ErrNone]
\* (variant: the proposer changes every second height)
rotatedProposerHalfPace(tipHeight, delegates) ==
    IF tipHeight.err # ErrNone
    THEN [proposer |-> NoProposer, height |-> 0, err |-> tipHeight.err]
    ELSE LET height == tipHeight.height + 1
             numDelegates == Len(delegates)
         IN IF numDelegates = 0
            THEN [proposer |-> NoProposer, height |-> 0, err |-> ErrZeroDelegate]
            ELSE [proposer |-> At(delegates, (height \div 2) % numDelegates),
                  height |-> height, err |-> ErrNone]
\* ctx.rotatedProposer(); tipHeight is what ctx.chain.TipHeight() returned
rotatedProposer(tipHeight, delegates) ==
    IF tipHeight.err # ErrNone
    THEN [proposer |-> NoProposer, height |-> 0, err |-> tipHeight.err]
    ELSE LET height == tipHeight.height + 1
             numDelegates == Len(delegates)
         IN IF numDelegates = 0
            THEN [proposer |-> NoProposer, height |-> 0, err |-> ErrZeroDelegate]
            ELSE [proposer |-> At(delegates, height % numDelegates),
                  height |-> height, err |-> ErrNone]

\* ctx.getNumSubEpochs(): max(configured number, 1)
getNumSubEpochs(cfgNumSubEpochs) ==
    IF cfgNumSubEpochs > 0 THEN cfgNumSubEpochs ELSE 1

\* (variant: the epoch is computed from the height of the next block)
calcEpochNumAndHeightOfNext(tipHeight, numDlgs, cfgNumSubEpochs) ==
    IF tipHeight.err # ErrNone
    THEN [epochNum |-> 0, epochHeight |-> 0, err |-> tipHeight.err]
    ELSE IF numDlgs.err # ErrNone
    THEN [epochNum |-> 0, epochHeight |-> 0, err |-> numDlgs.err]
    ELSE LET subEpochNum == getNumSubEpochs(cfgNumSubEpochs)
         IN IF numDlgs.num * subEpochNum = 0
            THEN [epochNum |-> 0, epochHeight |-> 0, err |-> DivideByZero]
            ELSE LET epochNum == ((tipHeight.height + 1) \div (numDlgs.num * subEpochNum)) + 1
                     epochHeight == numDlgs.num * subEpochNum * (epochNum - 1) + 1
                 IN [epochNum |-> epochNum, epochHeight |-> epochHeight,
                     err |-> ErrNone]
\* ctx.calcEpochNumAndHeight(); tipHeight and numDlgs are what the chain and
\* the pool returned
calcEpochNumAndHeight(tipHeight, numDlgs, cfgNumSubEpochs) ==
    IF tipHeight.err # ErrNone
    THEN [epochNum |-> 0, epochHeight |-> 0, err |-> tipHeight.err]
    ELSE IF numDlgs.err # ErrNone
    THEN [epochNum |-> 0, epochHeight |-> 0, err |-> numDlgs.err]
    ELSE LET subEpochNum == getNumSubEpochs(cfgNumSubEpochs)
         IN IF numDlgs.num * subEpochNum = 0
            THEN [epochNum |-> 0, epochHeight |-> 0, err |-> DivideByZero]
            ELSE LET epochNum == (tipHeight.height \div (numDlgs.num * subEpochNum)) + 1
                     epochHeight == numDlgs.num * subEpochNum * (epochNum - 1) + 1
                 IN [epochNum |-> epochNum, epochHeight |-> epochHeight,
                     err |-> ErrNone]

NoRot  == [called |-> FALSE, tipFailed |-> FALSE, tipAt |-> 0,
           delegatesAt |-> <<>>,
           out |-> [proposer |-> NoProposer, height |-> 0, err |-> ErrNone]]
NoCalc == [called |-> FALSE, tipFailed |-> FALSE, poolFailed |-> FALSE,
           tipAt |-> 0,
           out |-> [epochNum |-> 0, epochHeight |-> 0, err |-> ErrNone]]
NoRoll == [delegates |-> <<>>, numDlgs |-> 0, numSubEpochs |-> 0,
           rot |-> [c \in Ctxs |-> NoRot], calc |-> NoCalc,
           proposers |-> <<>>]

\* ordered lists of distinct delegates
DelegateLists ==
    UNION {{d \in [1..k -> Delegates] :
              \A i, j \in 1..k : i # j => d[i] # d[j]} : k \in 0..MaxDelegates}

\* ------------------------------------------------------------ rewarding
\* a nil *action.Receipt
NilReceipt == [isNil |-> TRUE, Status |-> 0, ActHash |-> "", GasConsumed |-> 0]
NilError   == "nil"

RewardTypes == {"BlockReward", "EpochReward", "other reward type"}
Actions ==
    [type : {"SetReward", "GrantReward"}, rewardType : RewardTypes]
    \cup [type : {"DepositToRewardingFund", "ClaimFromRewardingFund", "Transfer"},
          rewardType : {"none"}]

\* p.createReceipt(status, actHash, gasConsumed)
createReceipt(status, actHash, gasConsumed) ==
    [isNil |-> FALSE, Status |-> 0, ActHash |-> actHash,
     GasConsumed |-> gasConsumed]

\* p.increaseNonce(sm, addr, nonce) on the account with nonce accNonce;
\* loadFails and storeFails are the outcomes of util.LoadOrCreateAccount and
\* util.StoreAccount
increaseNonce(accNonce, nonce, loadFails, storeFails) ==
    IF loadFails THEN [accNonce |-> accNonce, failed |-> TRUE]
    ELSE IF storeFails THEN [accNonce |-> accNonce, failed |-> TRUE]
    ELSE [accNonce |-> IF nonce > accNonce THEN nonce ELSE accNonce,
          failed |-> FALSE]

\* p.settleAction(ctx, sm, status); gasFails is the outcome of DepositGas
settleAction(accNonce, raCtx, status, gasFails, loadFails, storeFails) ==
    LET discarded == createReceipt(1, raCtx.ActionHash, raCtx.IntrinsicGas)
        inc == increaseNonce(accNonce, raCtx.Nonce, loadFails, storeFails)
    IN [accNonce |-> inc.accNonce,
        gasDeposited |-> ~gasFails,
        receipt |-> IF inc.failed
                    THEN createReceipt(1, raCtx.ActionHash, raCtx.IntrinsicGas)
                    ELSE createReceipt(status, raCtx.ActionHash, raCtx.IntrinsicGas)]

\* the cases of the type switch of Handle that run an operation
Handled(act) ==
    \/ act.type \in {"DepositToRewardingFund", "ClaimFromRewardingFund"}
    \/ /\ act.type \in {"SetReward", "GrantReward"}
       /\ act.rewardType \in {"BlockReward", "EpochReward"}

\* p.Handle(ctx, act, sm); opFails is the outcome of the operation the case
\* runs (SetBlockReward, SetEpochReward, Deposit, Claim, GrantBlockReward,
\* GrantEpochReward)
Handle(accNonce, raCtx, act, opFails, gasFails, loadFails, storeFails) ==
    IF Handled(act)
    THEN LET r == settleAction(accNonce, raCtx, IF opFails THEN 1 ELSE 0,
                               gasFails, loadFails, storeFails)
         IN [accNonce |-> r.accNonce, gasDeposited |-> r.gasDeposited,
             receipt |-> r.receipt, err |-> NilError]
    ELSE [accNonce |-> accNonce, gasDeposited |-> FALSE,
          receipt |-> NilReceipt, err |-> NilError]

NoHandle == [called |-> FALSE, act |-> [type |-> "Transfer", rewardType |-> "none"],
             opFailed |-> FALSE, gasFailed |-> FALSE, nonceFailed |-> FALSE,
             gasDeposited |-> FALSE, receipt |-> NilReceipt, err |-> NilError]
NoRewarding == [accNonce |-> 0, last |-> NoHandle]

\* --------------------------------------------------------- ChainService
Components  == {"indexservice", "chain", "consensus", "blocksync", "explorer",
                "api", "indexBuilder"}
\* the fields of ChainService that may be nil
Optional    == {"indexservice", "explorer", "api", "indexBuilder"}
NoComponent == "none"

\* the order of the statements of Start
\* (variant: consensus is started before the chain)
StartOrderConsensusFirst ==
    <<"indexservice", "consensus", "chain", "blocksync", "explorer", "api",
      "indexBuilder">>
StartOrder ==
    <<"indexservice", "chain", "consensus", "blocksync", "explorer", "api",
      "indexBuilder">>

\* the order of the statements of Stop
StopOrder ==
    <<"indexBuilder", "explorer", "api", "indexservice", "consensus",
      "blocksync", "chain">>

\* the chain of `if err := c.Start(ctx); err != nil { return ... }` statements:
\* nil components are skipped, the first failing call ends the run; failAt
\* is the component whose call fails (NoComponent: none)
RECURSIVE RunInOrder(_, _, _, _)
RunInOrder(order, present, failAt, log) ==
    IF order = <<>> THEN [log |-> log, err |-> NoComponent]
    ELSE IF Head(order) \notin present
    THEN RunInOrder(Tail(order), present, failAt, log)
    ELSE IF Head(order) = failAt
    THEN [log |-> Append(log, [component |-> Head(order), ok |-> FALSE]),
          err |-> Head(order)]
    ELSE RunInOrder(Tail(order), present, failAt,
                    Append(log, [component |-> Head(order), ok |-> TRUE]))

Succeeded(log) == {log[i].component : i \in {j \in 1..Len(log) : log[j].ok}}

NoRun == [called |-> FALSE, log |-> <<>>, err |-> NoComponent]
NoSvc == [present |-> {}, running |-> {}, start |-> NoRun, stop |-> NoRun]

\* ---------------------------------------------------------- goroutines
Procs    == {"g1", "g2", "g3"}      \* goroutines calling into the buffer
NoProc   == "none"
Unlocked == [writer |-> NoProc, readers |-> {}]

\* b.mu.Lock() returns when no writer and no reader holds the mutex
\* (variant: Lock returns at once)
CanLockAlways(m) == TRUE
CanLock(m) == m.writer = NoProc /\ m.readers = {}

\* b.mu.RLock() returns when no writer holds the mutex
CanRLock(m) == m.writer = NoProc

Idle == [pc |-> "idle", blk |-> NilBlock, confirmedHeight |-> 0,
         heightToSync |-> 0, res |-> NoCall, ret |-> FALSE, failAt |-> NoFail,
         loopBlk |-> NoBlock, targetHeight |-> 0, bi |-> <<>>, snap |-> <<>>]

Init ==
    /\ size \in 0..MaxSize
    /\ blocks = [h \in Heights |-> NoBlock]
    /\ tip \in 0..MaxInitTip
    /\ commitHeight \in {0, tip}
    /\ chain = [h \in Heights |-> IF h <= tip THEN External ELSE NoBlock]
    /\ commitCalls = [h \in Heights |-> <<>>]
    /\ last = [blk |-> NilBlock, res |-> NoCall, ret |-> FALSE,
               pre |-> Snapshot, commits |-> <<>>,
               again |-> FALSE]
    /\ sync = NoSync
    /\ roll = NoRoll
    /\ mu = Unlocked
    /\ callers = [p \in Procs |-> Idle]
    /\ rewarding = NoRewarding
    /\ svc = NoSvc

\* b.Flush(blk)
Flush(blk, failAt) ==
    \E r \in {FlushResult(CallState, blk, failAt)} :
       /\ IF \E i \in 1..Len(r.commits) : ~r.commits[i].ok
          THEN NumFailed(commitCalls, Cardinality(DOMAIN commitCalls)) < MaxFail
          ELSE failAt = NoFail
       /\ blocks' = r.blocks
       /\ commitHeight' = r.commitHeight
       /\ tip' = r.tip
       /\ chain' = r.chain
       /\ commitCalls' = Record(commitCalls, r.commits)
       /\ last' = [blk |-> blk, res |-> r.res, ret |-> r.ret,
                   pre |-> Snapshot, commits |-> r.commits,
                   again |-> (last.res = bCheckinValid /\ last.blk = blk)]
       /\ sync' = NoSync
       /\ UNCHANGED <<rewarding, svc, size, roll, mu, callers>>

\* b.GetBlocksIntervalsToSync(targetHeight), called by the sync worker
Sync(targetHeight) ==
    /\ sync' = [called |-> TRUE, target |-> targetHeight,
                bi |-> GetBlocksIntervalsToSync(blocks, tip, size, targetHeight)]
    /\ UNCHANGED <<rewarding, svc, size, blocks, commitHeight, tip, chain, commitCalls, last, roll,
                   mu, callers>>

\* the chain gets its next block by a path other than this buffer
ExternalAdvanceBelow(maxTip) ==
    /\ tip < maxTip
    /\ tip' = tip + 1
    /\ chain' = [chain EXCEPT ![tip + 1] = External]
    /\ sync' = NoSync
    /\ UNCHANGED <<rewarding, svc, size, blocks, commitHeight, commitCalls, last, roll, mu, callers>>

ExternalAdvance == ExternalAdvanceBelow(MaxHeight)

FlushStep ==
    \E blk \in Blocks \cup {NilBlock}, failAt \in Heights \cup {NoFail} :
        Flush(blk, failAt)

SyncStep == \E targetHeight \in 0..(MaxHeight + 1) : Sync(targetHeight)

Next == FlushStep

NextSync == FlushStep \/ SyncStep

NextExt == FlushStep \/ ExternalAdvance

\* a long run of a buffer next to a chain that mostly advances without it:
\* heights up to LeakMaxHeight, one block per height, blocks arriving for the
\* heights around the window (two below it to one above it), commits succeed
LeakHeights == 1..LeakMaxHeight

InitLeak ==
    /\ size \in 0..MaxSize
    /\ blocks = [h \in LeakHeights |-> NoBlock]
    /\ tip = 0
    /\ commitHeight = 0
    /\ chain = [h \in LeakHeights |-> IF h <= tip THEN External ELSE NoBlock]
    /\ commitCalls = [h \in LeakHeights |-> <<>>]
    /\ last = [blk |-> NilBlock, res |-> NoCall, ret |-> FALSE,
               pre |-> Snapshot, commits |-> <<>>,
               again |-> FALSE]
    /\ sync = NoSync
    /\ roll = NoRoll
    /\ mu = Unlocked
    /\ callers = [p \in Procs |-> Idle]
    /\ rewarding = NoRewarding
    /\ svc = NoSvc

LeakFlushStep ==
    \E h \in LeakHeights \cap ((tip - 1)..(tip + size + 1)) :
        Flush([height |-> h, id |-> 1], NoFail)

LeakExternalAdvance == ExternalAdvanceBelow(LeakMaxHeight)

NextLeak == LeakFlushStep \/ LeakExternalAdvance

SpecLeak == InitLeak /\ [][NextLeak]_vars

\* the consensus context next to a chain at some height: the epoch's
\* delegates, the pool's delegate count and the configured sub-epoch count
\* are whatever the node was set up with
InitRoll ==
    /\ size = 0
    /\ blocks = [h \in Heights |-> NoBlock]
    /\ tip \in 0..MaxRollTip
    /\ commitHeight = 0
    /\ chain = [h \in Heights |-> IF h <= tip THEN External ELSE NoBlock]
    /\ commitCalls = [h \in Heights |-> <<>>]
    /\ last = [blk |-> NilBlock, res |-> NoCall, ret |-> FALSE,
               pre |-> Snapshot, commits |-> <<>>,
               again |-> FALSE]
    /\ sync = NoSync
    /\ mu = Unlocked
    /\ callers = [p \in Procs |-> Idle]
    /\ rewarding = NoRewarding
    /\ svc = NoSvc
    /\ \E d \in DelegateLists, n \in 0..MaxNumDlgs, c \in 0..MaxSubEpochs :
           roll = [NoRoll EXCEPT !.delegates = d, !.numDlgs = n,
                                 !.numSubEpochs = c]

\* ctx.rotatedProposer() on instance c
RotatedProposerCall(c, tipFails) ==
    /\ roll' = [roll EXCEPT !.rot[c] =
                   [called |-> TRUE, tipFailed |-> tipFails, tipAt |-> tip,
                    delegatesAt |-> roll.delegates,
                    out |-> rotatedProposer(ChainTipHeight(tip, tipFails),
                                            roll.delegates)]]
    /\ UNCHANGED <<rewarding, svc, size, blocks, commitHeight, tip, chain, commitCalls, last, sync,
                   mu, callers>>

\* ctx.calcEpochNumAndHeight()
CalcEpochCall(tipFails, poolFails) ==
    /\ roll' = [roll EXCEPT !.calc =
                   [called |-> TRUE, tipFailed |-> tipFails,
                    poolFailed |-> poolFails, tipAt |-> tip,
                    out |-> calcEpochNumAndHeight(
                                ChainTipHeight(tip, tipFails),
                                NumDelegatesPerEpoch(roll.numDlgs, poolFails),
                                roll.numSubEpochs)]]
    /\ UNCHANGED <<rewarding, svc, size, blocks, commitHeight, tip, chain, commitCalls, last, sync,
                   mu, callers>>

RotatedProposerStep ==
    \E c \in Ctxs, tipFails \in BOOLEAN : RotatedProposerCall(c, tipFails)

CalcEpochStep ==
    \E tipFails \in BOOLEAN, poolFails \in BOOLEAN :
        CalcEpochCall(tipFails, poolFails)

NextRoll == RotatedProposerStep \/ CalcEpochStep

\* a round of block production: the proposer ctx.rotatedProposer() names for
\* the next height produces the block and the chain commits it; proposers
\* keeps who produced each block, oldest first
ProduceBlock ==
    /\ Len(roll.proposers) < 2 * MaxDelegates
    /\ LET r == rotatedProposer(ChainTipHeight(tip, FALSE), roll.delegates)
       IN /\ r.err = ErrNone
          /\ roll' = [roll EXCEPT !.proposers = Append(@, r.proposer)]
          /\ tip' = r.height
    /\ UNCHANGED <<rewarding, svc, size, blocks, commitHeight, chain, commitCalls, last, sync,
                   mu, callers>>

\* the proposer is asked although the epoch has no delegates
ProposeWithoutDelegates ==
    /\ roll.delegates = <<>>
    /\ RotatedProposerCall("node1", FALSE)

NextRotate == ProduceBlock \/ ProposeWithoutDelegates

\* block production with a fixed delegate list, the tip advancing by one
\* block per round
SpecRotate == InitRoll /\ [][NextRotate]_vars

SpecRoll == InitRoll /\ [][NextRoll]_vars

\* ------------------------------------------- Flush, statement by statement
\* goroutine p calls Flush(blk) and waits for the mutex
FlushCall(p, blk) ==
    /\ callers[p].pc = "idle"
    /\ callers' = [callers EXCEPT ![p] = [Idle EXCEPT !.pc = "lock", !.blk = blk]]
    /\ UNCHANGED <<rewarding, svc, size, blocks, commitHeight, tip, chain, commitCalls, last, sync,
                   roll, mu>>

\* b.mu.Lock()
FlushLock(p) ==
    /\ callers[p].pc = "lock"
    /\ CanLock(mu)
    /\ mu' = [mu EXCEPT !.writer = p]
    /\ callers' = [callers EXCEPT ![p].pc = "check", ![p].snap = CallState]
    /\ UNCHANGED <<rewarding, svc, size, blocks, commitHeight, tip, chain, commitCalls, last, sync,
                   roll>>

\* the nil check, confirmedHeight := b.bc.TipHeight(), the three checks and
\* b.blocks[blkHeight] = blk
FlushCheck(p) ==
    /\ callers[p].pc = "check"
    /\ LET me  == callers[p]
           st  == [tip |-> tip, chain |-> chain]
           confirmedHeight == ConfirmedHeight(st)
           res == Classify(blocks, size, confirmedHeight, me.blk)
       IN IF res # bCheckinValid
          THEN /\ callers' = [callers EXCEPT ![p].pc = "unlock", ![p].res = res,
                                             ![p].ret = FALSE,
                                             ![p].confirmedHeight = confirmedHeight]
               /\ UNCHANGED blocks
          ELSE /\ blocks' = [blocks EXCEPT ![me.blk.height] = me.blk.id]
               /\ callers' = [callers EXCEPT ![p].pc = "loop", ![p].res = res,
                                             ![p].confirmedHeight = confirmedHeight,
                                             ![p].heightToSync =
                                                 DrainStart(confirmedHeight, me.blk.height)]
    /\ UNCHANGED <<rewarding, svc, size, commitHeight, tip, chain, commitCalls, last, sync, roll, mu>>

\* the loop condition, the lookup blk, ok := b.blocks[heightToSync] and
\* delete(b.blocks, heightToSync)
FlushLoop(p) ==
    /\ callers[p].pc = "loop"
    /\ LET me == callers[p]
       IN IF \/ me.heightToSync > DrainLimit(me.confirmedHeight, size)
             \/ ~Has(blocks, me.heightToSync)
          THEN /\ callers' = [callers EXCEPT ![p].pc = "cleanup"]
               /\ UNCHANGED blocks
          ELSE /\ blocks' = [blocks EXCEPT ![me.heightToSync] = NoBlock]
               /\ callers' = [callers EXCEPT ![p].pc = "commit",
                                             ![p].loopBlk = blocks[me.heightToSync]]
    /\ UNCHANGED <<rewarding, svc, size, commitHeight, tip, chain, commitCalls, last, sync, roll, mu>>

\* commitBlock(b.bc, b.ap, b.cs, blk) and, when it succeeds,
\* b.commitHeight = heightToSync and heightToSync++
FlushCommit(p, ok) ==
    /\ callers[p].pc = "commit"
    /\ LET me  == callers[p]
           bc  == [tip |-> tip, chain |-> chain]
           done == commitOk(bc, me.heightToSync, ok)
           bc2 == commitBlock(bc, me.heightToSync, me.loopBlk, ok)
       IN /\ done \/ NumFailed(commitCalls, Cardinality(DOMAIN commitCalls)) < MaxFail
          /\ tip' = bc2.tip
          /\ chain' = bc2.chain
          /\ commitCalls' = [commitCalls EXCEPT ![me.heightToSync] = Append(@, done)]
          /\ IF done
             THEN /\ commitHeight' = SetCommitHeight(me.heightToSync, me.confirmedHeight)
                  /\ callers' = [callers EXCEPT ![p].pc = "loop",
                                                ![p].heightToSync = me.heightToSync + 1]
             ELSE /\ UNCHANGED commitHeight
                  /\ callers' = [callers EXCEPT ![p].pc = "cleanup",
                                                ![p].failAt = me.heightToSync]
    /\ UNCHANGED <<rewarding, svc, size, blocks, last, sync, roll, mu>>

\* "clean up on memory leak" and the return value
FlushCleanup(p) ==
    /\ callers[p].pc = "cleanup"
    /\ blocks' = Cleanup(blocks, size, callers[p].confirmedHeight)
    /\ callers' = [callers EXCEPT ![p].pc = "unlock",
                                  ![p].ret = FlushReturn(callers[p].heightToSync,
                                                         callers[p].blk.height)]
    /\ UNCHANGED <<rewarding, svc, size, commitHeight, tip, chain, commitCalls, last, sync, roll, mu>>

\* the deferred b.mu.Unlock()
FlushUnlock(p) ==
    /\ callers[p].pc = "unlock"
    /\ mu' = [mu EXCEPT !.writer = IF @ = p THEN NoProc ELSE @]
    /\ callers' = [callers EXCEPT ![p] = Idle]
    /\ UNCHANGED <<rewarding, svc, size, blocks, commitHeight, tip, chain, commitCalls, last, sync,
                   roll>>

\* goroutine p calls GetBlocksIntervalsToSync(targetHeight): b.mu.RLock()
SyncRLock(p, targetHeight) ==
    /\ callers[p].pc = "idle"
    /\ CanRLock(mu)
    /\ mu' = [mu EXCEPT !.readers = @ \cup {p}]
    /\ callers' = [callers EXCEPT ![p] = [Idle EXCEPT !.pc = "scan",
                                                      !.targetHeight = targetHeight]]
    /\ UNCHANGED <<rewarding, svc, size, blocks, commitHeight, tip, chain, commitCalls, last, sync,
                   roll>>

\* the body of GetBlocksIntervalsToSync
SyncScan(p) ==
    /\ callers[p].pc = "scan"
    /\ callers' = [callers EXCEPT ![p].pc = "runlock",
                                  ![p].bi = GetBlocksIntervalsToSync(
                                                blocks, tip, size,
                                                callers[p].targetHeight)]
    /\ UNCHANGED <<rewarding, svc, size, blocks, commitHeight, tip, chain, commitCalls, last, sync,
                   roll, mu>>

\* the deferred b.mu.RUnlock()
SyncRUnlock(p) ==
    /\ callers[p].pc = "runlock"
    /\ mu' = [mu EXCEPT !.readers = @ \ {p}]
    /\ callers' = [callers EXCEPT ![p] = Idle]
    /\ UNCHANGED <<rewarding, svc, size, blocks, commitHeight, tip, chain, commitCalls, last, sync,
                   roll>>

FlushCallStep   ==
    \E p \in Procs, blk \in {b \in Blocks : b.id = 1} \cup {NilBlock} :
        FlushCall(p, blk)
FlushLockStep   == \E p \in Procs : FlushLock(p)
FlushCheckStep  == \E p \in Procs : FlushCheck(p)
FlushLoopStep   == \E p \in Procs : FlushLoop(p)
FlushCommitStep == \E p \in Procs, ok \in BOOLEAN : FlushCommit(p, ok)
FlushCleanupStep == \E p \in Procs : FlushCleanup(p)
FlushUnlockStep == \E p \in Procs : FlushUnlock(p)
SyncRLockStep   == \E p \in Procs : SyncRLock(p, MaxHeight)
SyncScanStep    == \E p \in Procs : SyncScan(p)
SyncRUnlockStep == \E p \in Procs : SyncRUnlock(p)

NextConc ==
    \/ FlushCallStep \/ FlushLockStep \/ FlushCheckStep \/ FlushLoopStep
    \/ FlushCommitStep \/ FlushCleanupStep \/ FlushUnlockStep
    \/ SyncRLockStep \/ SyncScanStep \/ SyncRUnlockStep

\* goroutines calling Flush and GetBlocksIntervalsToSync concurrently
SpecConc == Init /\ [][NextConc]_vars

\* the buffer and the consensus context as constructed, nothing running
Quiet ==
    /\ size = 0
    /\ blocks = [h \in Heights |-> NoBlock]
    /\ tip = 0
    /\ commitHeight = 0
    /\ chain = [h \in Heights |-> NoBlock]
    /\ commitCalls = [h \in Heights |-> <<>>]
    /\ last = [blk |-> NilBlock, res |-> NoCall, ret |-> FALSE,
               pre |-> Snapshot, commits |-> <<>>,
               again |-> FALSE]
    /\ sync = NoSync
    /\ roll = NoRoll
    /\ mu = Unlocked
    /\ callers = [p \in Procs |-> Idle]

\* ---------------------------------------------------- rewarding protocol
InitRewarding ==
    /\ Quiet
    /\ \E n \in 0..MaxNonce : rewarding = [NoRewarding EXCEPT !.accNonce = n]
    /\ svc = NoSvc

\* the state manager runs one action of a block through p.Handle
HandleCall(act, nonce, opFails, gasFails, loadFails, storeFails) ==
    /\ LET raCtx == [ActionHash |-> act.type, IntrinsicGas |-> 0, Nonce |-> nonce]
           r == Handle(rewarding.accNonce, raCtx, act, opFails, gasFails,
                       loadFails, storeFails)
       IN rewarding' =
              [accNonce |-> r.accNonce,
               last |-> [called |-> TRUE, act |-> act, opFailed |-> opFails,
                         gasFailed |-> gasFails,
                         nonceFailed |-> loadFails \/ storeFails,
                         gasDeposited |-> r.gasDeposited,
                         receipt |-> r.receipt, err |-> r.err]]
    /\ UNCHANGED <<size, blocks, commitHeight, tip, chain, commitCalls, last, sync,
                   roll, mu, callers, svc>>

HandleStep ==
    \E act \in Actions, nonce \in 0..MaxNonce,
       opFails \in BOOLEAN, gasFails \in BOOLEAN,
       loadFails \in BOOLEAN, storeFails \in BOOLEAN :
        HandleCall(act, nonce, opFails, gasFails, loadFails, storeFails)

NextRewarding == HandleStep

SpecRewarding == InitRewarding /\ [][NextRewarding]_vars

\* --------------------------------------------------------- ChainService
InitSvc ==
    /\ Quiet
    /\ rewarding = NoRewarding
    /\ \E opt \in SUBSET Optional :
           svc = [NoSvc EXCEPT !.present = (Components \ Optional) \cup opt]

\* cs.Start(ctx)
StartCall(failAt) ==
    /\ \E r \in {RunInOrder(StartOrder, svc.present, failAt, <<>>)} :
           svc' = [svc EXCEPT !.running = @ \cup Succeeded(r.log),
                              !.start = [called |-> TRUE, log |-> r.log,
                                         err |-> r.err]]
    /\ UNCHANGED <<size, blocks, commitHeight, tip, chain, commitCalls, last, sync,
                   roll, mu, callers, rewarding>>

\* cs.Stop(ctx)
StopCall(failAt) ==
    /\ \E r \in {RunInOrder(StopOrder, svc.present, failAt, <<>>)} :
           svc' = [svc EXCEPT !.running = @ \ Succeeded(r.log),
                              !.stop = [called |-> TRUE, log |-> r.log,
                                        err |-> r.err]]
    /\ UNCHANGED <<size, blocks, commitHeight, tip, chain, commitCalls, last, sync,
                   roll, mu, callers, rewarding>>

StartStep == \E failAt \in Components \cup {NoComponent} : StartCall(failAt)
StopStep  == \E failAt \in Components \cup {NoComponent} : StopCall(failAt)

NextSvc == StartStep \/ StopStep

SpecSvc == InitSvc /\ [][NextSvc]_vars

\* the buffer is the only writer of the chain
Spec == Init /\ [][Next]_vars

\* the same, with the sync worker asking for the missing intervals
SpecSync == Init /\ [][NextSync]_vars

\* the chain also advances behind the buffer's back
SpecExt == Init /\ [][NextExt]_vars

\* ----------------------------------------------------------- vocabulary
\* of the properties
Called       == last.res # NoCall
blkHeight    == last.blk.height
Commits      == last.commits
CommitFailed == \E i \in 1..Len(Commits) : ~Commits[i].ok
Unchanged    == /\ blocks = last.pre.blocks
                /\ tip = last.pre.tip
                /\ commitHeight = last.pre.commitHeight
                /\ Commits = <<>>
\* the block pending at height h once the head of the last call has run
HeldAfterInsert(h) ==
    IF last.res = bCheckinValid /\ blkHeight = h THEN last.blk.id
    ELSE last.pre.blocks[h]

\* C1 (as stated): over any sequence of Flush calls each height is passed to
\* the chain's commit operation at most once, whether commits succeed or fail.
EachHeightPassedToCommitAtMostOnce ==
    \A h \in Heights : Len(commitCalls[h]) <= 1

\* C1 (amended): a height is passed to commit again only after a failed commit
\* of it; a successful commit of a height is the last commit call for that
\* height, so each height is committed successfully at most once.
NoCommitAfterSuccessfulCommit ==
    \A h \in Heights : \A i \in 1..Len(commitCalls[h]) :
        commitCalls[h][i] => i = Len(commitCalls[h])

\* a height whose commit failed, was flushed again and then committed
RecommittedAfterFailure ==
    \E h \in Heights : /\ Len(commitCalls[h]) >= 2
                       /\ commitCalls[h][Len(commitCalls[h])]
                       /\ ~commitCalls[h][1]

\* C2: every commit call made by Flush is for the height (chain tip at that
\* moment)+1, so blocks are committed in ascending, gapless height order
\* whatever order they were flushed in.
CommitsAreForTipPlusOne ==
    /\ \A i \in 1..Len(Commits) : Commits[i].height = Commits[i].tipAt + 1
    /\ \A i \in 1..(Len(Commits) - 1) : Commits[i + 1].height = Commits[i].height + 1
    /\ \A h \in Heights : chain[h] # NoBlock <=> h <= tip

\* the later block was flushed first: this call delivered the lower block
\* and the drain committed it and then the buffered one above it
OutOfOrderDrained ==
    /\ Len(Commits) >= 2
    /\ Commits[1].height = blkHeight
    /\ last.pre.blocks[blkHeight + 1] # NoBlock
    /\ \A i \in 1..Len(Commits) : Commits[i].ok

\* C3: no accepted block is lost: every block that was pending or was
\* classified Valid by the last Flush is still pending or has been committed
\* to the chain; a block leaves pending only with its successful commit.
NoAcceptedBlockLost ==
    \A h \in Heights :
        HeldAfterInsert(h) # NoBlock =>
            \/ blocks[h] = HeldAfterInsert(h)
            \/ \E i \in 1..Len(Commits) :
                   /\ Commits[i].ok
                   /\ Commits[i].height = h
                   /\ Commits[i].id = HeldAfterInsert(h)

\* C4: when a commit fails at height h during a drain, the drain stops, the
\* heights committed before h stay committed (commitHeight is the last
\* successful height) and the block at h and the undrained remainder stay in
\* pending for the next Flush.
FailedCommitKeepsBlockPending ==
    \A i \in 1..Len(Commits) :
        ~Commits[i].ok =>
            /\ i = Len(Commits)
            /\ tip = Commits[i].height - 1
            /\ commitHeight = IF i = 1 THEN last.pre.commitHeight
                              ELSE Commits[i].height - 1
            /\ \A h \in Heights :
                   h >= Commits[i].height => blocks[h] = HeldAfterInsert(h)

\* C5 (as stated): flushing the same block twice in a row yields Valid and
\* then Existing, and the second call leaves the buffer and the chain as the
\* first call left them, whether or not the first call drained the block.
ReflushIsExisting ==
    last.again => last.res = bCheckinExisting /\ Unchanged

\* C5 (amended): after a Flush classified Valid, flushing the same block again
\* yields Existing when the block is still pending, Lower when the first call
\* committed it, and in both cases returns false and leaves the buffer and
\* the chain as the first call left them; it yields Valid again only when the
\* first call's commit of the block failed, which dropped the block.
ReflushIsExistingOrLower ==
    last.again =>
        /\ last.res = bCheckinExisting <=> last.pre.blocks[blkHeight] # NoBlock
        /\ last.res = bCheckinLower <=> last.pre.tip >= blkHeight
        /\ last.res \in {bCheckinExisting, bCheckinLower, bCheckinValid}
        /\ last.res # bCheckinValid => Unchanged /\ ~last.ret
        /\ last.res = bCheckinExisting => blocks[blkHeight] = last.blk.id

\* the first call drained the block and the second call was given it again
ReflushedAfterDrain ==
    /\ last.again
    /\ last.res = bCheckinLower
    /\ chain[blkHeight] = ByBuffer
    /\ commitCalls[blkHeight][Len(commitCalls[blkHeight])]

\* the intervals GetBlocksIntervalsToSync returned, as a set of heights
Covered(bi) == {h \in 0..(MaxHeight + MaxSize + 1) :
                   \E i \in 1..Len(bi) : bi[i].Start <= h /\ h <= bi[i].End}
Min(a, b) == IF a <= b THEN a ELSE b
Missing(target) == {h \in (tip + 1)..Min(target, tip + size) : ~Has(blocks, h)}

\* C6: GetBlocksIntervalsToSync returns closed intervals that are ascending
\* and pairwise disjoint and whose union is exactly the heights of
\* [tip+1, min(targetHeight, tip+size)] absent from pending, for every
\* size >= 0; it returns the empty sequence when that range is empty.
IntervalsAreExactlyTheMissingHeights ==
    sync.called =>
        /\ \A i \in 1..Len(sync.bi) : sync.bi[i].Start <= sync.bi[i].End
        /\ \A i \in 1..(Len(sync.bi) - 1) : sync.bi[i].End < sync.bi[i + 1].Start
        /\ Covered(sync.bi) = Missing(sync.target)

\* C7: Flush returns true exactly when the block passed to this call, or a
\* block at a greater height, was committed successfully during this call's
\* drain; it returns false otherwise, also when the commit of the passed
\* block itself failed and for every outcome other than Valid.
ReturnsTrueIffOwnBlockCommitted ==
    Called =>
        (last.ret <=> \E i \in 1..Len(Commits) :
                          Commits[i].ok /\ Commits[i].height >= blkHeight)

\* the drain committed a buffered predecessor and failed on the passed block
FailedAtOwnHeightAfterProgress ==
    /\ Len(Commits) >= 2
    /\ ~Commits[Len(Commits)].ok
    /\ Commits[Len(Commits)].height = blkHeight
    /\ ~last.ret

\* C8: CommitHeight() is non-decreasing over any sequence of Flush calls,
\* including calls whose drain makes no progress or whose commit fails.
CommitHeightNeverDecreases == [][commitHeight' >= commitHeight]_vars

\* CommitHeight() has advanced and a later call's commit failed
CommitHeightKeptOnFailure ==
    /\ CommitFailed
    /\ Len(Commits) = 1
    /\ CommitHeight = last.pre.commitHeight
    /\ CommitHeight > 0

\* C9: a block whose height is tip+size+1 or more when Flush is called is
\* classified Higher and is not inserted into pending.
BeyondWindowIsHigher ==
    (Called /\ last.blk # NilBlock /\ blkHeight > last.pre.tip + size) =>
        /\ last.res = bCheckinHigher
        /\ ~last.ret
        /\ blocks = last.pre.blocks

\* a block exactly one past the window, offered while the buffer holds blocks
FirstHeightBeyondWindow ==
    /\ Called
    /\ last.blk # NilBlock
    /\ blkHeight = last.pre.tip + size + 1
    /\ last.res = bCheckinHigher
    /\ \E h \in Heights : blocks[h] # NoBlock

\* C10: Flush classifies by the first matching rule in the order nil ->
\* SkipNil, height <= tip -> Lower, height already pending -> Existing (the
\* stored block is kept), height > tip+size -> Higher, otherwise Valid and
\* the block is inserted.
ClassifiedByFirstMatchingRule ==
    Called =>
        /\ last.res =
             IF last.blk = NilBlock THEN bCheckinSkipNil
             ELSE IF blkHeight <= last.pre.tip THEN bCheckinLower
             ELSE IF last.pre.blocks[blkHeight] # NoBlock THEN bCheckinExisting
             ELSE IF blkHeight > last.pre.tip + size THEN bCheckinHigher
             ELSE bCheckinValid
        /\ last.res = bCheckinExisting =>
               blocks[blkHeight] = last.pre.blocks[blkHeight]
        /\ last.res = bCheckinValid =>
               \/ blocks[blkHeight] = last.blk.id
               \/ \E i \in 1..Len(Commits) :
                      Commits[i].height = blkHeight /\ Commits[i].id = last.blk.id

\* a block at a height that is both at or below the tip and still pending:
\* the staleness rule comes first
LowerWinsOverExisting ==
    /\ Called
    /\ last.res = bCheckinLower
    /\ last.pre.blocks[blkHeight] # NoBlock

\* C11: while the chain tip advances only through this buffer's own commits,
\* every height h in pending satisfies tip < h <= tip + size.
PendingWithinWindow ==
    \A h \in DOMAIN blocks : blocks[h] # NoBlock => tip < h /\ h <= tip + size

\* the tip has advanced through the buffer and pending holds the last height
\* of the window
PendingAtWindowEdge ==
    /\ \E h \in Heights : commitCalls[h] # <<>> /\ commitCalls[h][Len(commitCalls[h])]
    /\ Has(blocks, tip + size)
    /\ ~Has(blocks, tip + 1)

\* the chain tip when the last Flush returned: the tip it read plus the
\* blocks it committed
TipAfterCall == last.pre.tip + Cardinality({i \in 1..Len(Commits) : Commits[i].ok})
\* the last Flush left the buffer as it found it and made no commit call
UnchangedByCall == /\ blocks = last.pre.blocks
                   /\ commitHeight = last.pre.commitHeight
                   /\ Commits = <<>>
                   /\ TipAfterCall = last.pre.tip

\* C17: a Flush whose outcome is SkipNil, Lower, Existing or Higher returns
\* false and leaves pending, commitHeight and the chain unchanged and calls
\* commit zero times, even when pending already holds the block for tip+1.
RejectedFlushChangesNothing ==
    (Called /\ last.res # bCheckinValid) => ~last.ret /\ UnchangedByCall

\* a rejected block, offered while the block for tip+1 sits in pending
RejectedWhileNextIsPending ==
    /\ Called
    /\ last.res \in {bCheckinLower, bCheckinExisting, bCheckinHigher}
    /\ tip = last.pre.tip
    /\ Has(blocks, tip + 1)

\* C18: the drain is maximal: after a Flush that returns Valid and in which no
\* commit failed, pending does not hold the height (post-call tip)+1; the call
\* committed the whole contiguous run that started at the pre-call tip+1.
DrainIsMaximal ==
    (last.res = bCheckinValid /\ ~CommitFailed) =>
        /\ ~Has(blocks, TipAfterCall + 1)
        /\ TipAfterCall = last.pre.tip + Len(Commits)
        /\ \A h \in DOMAIN blocks :
               (last.pre.tip < h /\ h <= TipAfterCall) =>
                   HeldAfterInsert(h) # NoBlock /\ blocks[h] = NoBlock

\* a drain that ran to the last height of the window
DrainedWholeWindow ==
    /\ last.res = bCheckinValid
    /\ ~CommitFailed
    /\ Len(Commits) = size
    /\ size >= 2

\* C20: commitHeight never exceeds the chain tip, and after a Flush whose
\* drain committed at least one block it equals the last height that call
\* committed; a drain that commits nothing leaves it unchanged.
CommitHeightTracksLastCommit ==
    /\ commitHeight <= tip
    /\ \A i \in 1..Len(Commits) :
           (Commits[i].ok /\ (i = Len(Commits) \/ ~Commits[i + 1].ok)) =>
               commitHeight = Commits[i].height
    /\ (Called /\ ~(\E i \in 1..Len(Commits) : Commits[i].ok)) =>
           commitHeight = last.pre.commitHeight

\* the drain committed a block and then failed on the next one, with the
\* chain ahead of what the buffer committed before the call
CommitHeightAfterPartialDrain ==
    /\ Len(Commits) >= 2
    /\ ~Commits[Len(Commits)].ok
    /\ commitHeight = Commits[Len(Commits) - 1].height
    /\ last.pre.commitHeight < last.pre.tip

\* pending as the drain of the last Flush left it, before the clean-up
AfterDrain(h) ==
    IF \E i \in 1..Len(Commits) : Commits[i].height = h THEN NoBlock
    ELSE HeldAfterInsert(h)
NumAfterDrain == Cardinality({h \in DOMAIN blocks : AfterDrain(h) # NoBlock})
NumPending == Cardinality({h \in DOMAIN blocks : blocks[h] # NoBlock})

\* C19: after every Flush pending holds at most 2*size entries, also when the
\* chain tip advances past the buffer: a Valid flush that finds more than
\* 2*size entries after its drain removes every entry at or below the tip.
PendingAtMostTwiceSize ==
    /\ NumPending <= 2 * size
    /\ (last.res = bCheckinValid /\ NumAfterDrain > 2 * size) =>
           \A h \in DOMAIN blocks : h <= TipAfterCall => blocks[h] = NoBlock

\* a Valid flush found more than 2*size entries and purged the stale ones
LeakPurged ==
    /\ last.res = bCheckinValid
    /\ NumAfterDrain > 2 * size
    /\ NumPending < NumAfterDrain

\* ------------------------------------------------------------- liveness
\* one block per height (the canonical chain).  The sync worker asks for the
\* intervals missing below the target and a peer answers with the block of one
\* of the reported heights, which is flushed
ResyncStep ==
    \E bi \in {GetBlocksIntervalsToSync(blocks, tip, size, MaxHeight)} :
        \E h \in Heights \cap Covered(bi), failAt \in Heights \cup {NoFail} :
            Flush([height |-> h, id |-> 1], failAt)

\* the network delivers any block of the canonical chain, or none, at any time
DisorderStep ==
    \E blk \in {b \in Blocks : b.id = 1} \cup {NilBlock},
       failAt \in Heights \cup {NoFail} :
        Flush(blk, failAt)

NextLive == DisorderStep \/ ResyncStep

\* every reported height is eventually flushed again (weak fairness of the
\* resynchronisation); commits fail at most MaxFail times
SpecLive == Init /\ [][NextLive]_vars /\ WF_vars(ResyncStep)

\* C12 as stated: whatever the window size, the chain tip eventually reaches
\* the target height when reported heights keep being flushed again and
\* commits eventually succeed.
TipReachesTarget == <>(tip >= MaxHeight)

\* C12: with a window size of at least 1, when every height reported missing
\* is eventually flushed again and commits eventually succeed, the chain tip
\* eventually reaches the target height, whatever late, duplicate or
\* far-future blocks and transient commit failures come in between.
TipReachesTargetWithWindow == (size >= 1) ~> (tip >= MaxHeight)

\* the buffer brought the chain to the target although a commit had failed
TargetReachedAfterFailure ==
    /\ size >= 1
    /\ tip >= MaxHeight
    /\ chain[MaxHeight] = ByBuffer
    /\ NumFailed(commitCalls, Cardinality(DOMAIN commitCalls)) > 0

\* ------------------------------------------------------------- rolldpos
Rot(c)   == roll.rot[c]
RotOk(c) == Rot(c).called /\ ~Rot(c).tipFailed
NumDelegates == Len(roll.delegates)

\* the general part of C14: the result is (delegates[(tip+1) mod n], tip+1),
\* every instance gets the same result, and the call changed no state
RotationByNextHeight ==
    \A c \in Ctxs :
        (RotOk(c) /\ NumDelegates > 0) =>
            /\ Rot(c).out = [proposer |-> At(roll.delegates, (tip + 1) % NumDelegates),
                             height |-> tip + 1, err |-> ErrNone]
            /\ Rot(c).tipAt = tip /\ Rot(c).delegatesAt = roll.delegates
            /\ \A d \in Ctxs : RotOk(d) => Rot(d).out = Rot(c).out

ExampleCase(c) ==
    RotOk(c) /\ roll.delegates = <<"A", "B", "C">> /\ tip = 7

\* C14 as stated: rotatedProposer returns (delegates[(tip+1) mod n], tip+1)
\* for a non-empty list, the same on every call and instance, changes no
\* state, and delegates [A,B,C] with tip 7 give (B, 8).
ProposerRotatesExampleB ==
    /\ RotationByNextHeight
    /\ \A c \in Ctxs :
           ExampleCase(c) => Rot(c).out.proposer = "B" /\ Rot(c).out.height = 8

\* C14: rotatedProposer returns (delegates[(tip+1) mod n], tip+1) for a
\* non-empty list, indices counted from 0, the same on every call and
\* instance, and changes no state; delegates [A,B,C] with tip 7 give (C, 8).
ProposerRotatesExampleC ==
    /\ RotationByNextHeight
    /\ \A c \in Ctxs :
           ExampleCase(c) => Rot(c).out.proposer = "C" /\ Rot(c).out.height = 8

\* both instances were asked for the proposer of height 8 among [A,B,C]
BothInstancesAskedAtTipSeven ==
    \A c \in Ctxs : ExampleCase(c)

\* C15: for n >= 1 delegates per epoch and s = max(NumSubEpochs, 1),
\* calcEpochNumAndHeight returns epochNum = tip div (n*s) + 1 and
\* epochHeight = n*s*(epochNum-1) + 1, and that epoch contains the next
\* block: epochHeight <= tip+1 <= epochHeight + n*s - 1.
EpochContainsNextBlock ==
    LET n == roll.numDlgs
        s == IF roll.numSubEpochs >= 1 THEN roll.numSubEpochs ELSE 1
        o == roll.calc.out
    IN (roll.calc.called /\ ~roll.calc.tipFailed /\ ~roll.calc.poolFailed
        /\ n >= 1) =>
           /\ o.err = ErrNone
           /\ o.epochNum = (tip \div (n * s)) + 1
           /\ o.epochHeight = n * s * (o.epochNum - 1) + 1
           /\ o.epochHeight <= tip + 1
           /\ tip + 1 <= o.epochHeight + n * s - 1

\* the epoch was computed at the last height of an epoch of several blocks,
\* with the sub-epoch count left at 0
EpochComputedAtLastHeightOfEpoch ==
    /\ roll.calc.called /\ roll.calc.out.err = ErrNone
    /\ roll.numSubEpochs = 0 /\ roll.numDlgs >= 2
    /\ tip >= roll.numDlgs
    /\ (tip + 1) % roll.numDlgs = 0

\* C16: with an empty delegate list and a readable tip rotatedProposer
\* returns the zero-delegate error with no proposer and height 0; when the
\* tip cannot be read it returns the chain's error, whatever the list.
EmptyDelegatesIsAnError ==
    \A c \in Ctxs :
        /\ (RotOk(c) /\ NumDelegates = 0) =>
               Rot(c).out = [proposer |-> NoProposer, height |-> 0,
                             err |-> ErrZeroDelegate]
        /\ (Rot(c).called /\ Rot(c).tipFailed) =>
               Rot(c).out = [proposer |-> NoProposer, height |-> 0,
                             err |-> ErrChain]

\* one instance read the tip and found no delegates, the other could not
\* read the tip
ZeroDelegatesAndUnreadableTip ==
    /\ NumDelegates = 0
    /\ \E c, d \in Ctxs : RotOk(c) /\ Rot(d).called /\ Rot(d).tipFailed

\* ---------------------------------------------------------- concurrency
FlushSection == {"check", "loop", "commit", "cleanup", "unlock"}
ReadSection  == {"scan", "runlock"}
NumCommitted(h) == Cardinality({i \in 1..Len(commitCalls[h]) : commitCalls[h][i]})

\* C13: Flush is atomic with respect to other Flush calls and to
\* GetBlocksIntervalsToSync: while a goroutine is between Lock and Unlock no
\* other goroutine is inside Flush or inside GetBlocksIntervalsToSync, so a
\* reader is never inside while a block is removed from pending and its
\* commit is still to come; when Flush releases the mutex the buffer and the
\* chain are what the whole Flush makes of the state found at Lock (no
\* insertion lost); a reader returns the intervals of the state it holds; no
\* height is committed twice.
FlushIsAtomic ==
    /\ \A p, q \in Procs :
           (p # q /\ callers[p].pc \in FlushSection) =>
               callers[q].pc \notin FlushSection \cup ReadSection
    /\ \A p, q \in Procs :
           callers[p].pc = "commit" =>
               /\ callers[q].pc \notin ReadSection
               /\ ~Has(blocks, callers[p].heightToSync)
               /\ chain[callers[p].heightToSync] = NoBlock
    /\ \A p \in Procs :
           callers[p].pc = "unlock" =>
               LET me == callers[p]
                   r  == FlushResult(me.snap, me.blk, me.failAt)
               IN /\ blocks = r.blocks /\ tip = r.tip /\ chain = r.chain
                  /\ commitHeight = r.commitHeight
                  /\ me.res = r.res /\ me.ret = r.ret
    /\ \A p \in Procs :
           callers[p].pc = "runlock" =>
               callers[p].bi = GetBlocksIntervalsToSync(blocks, tip, size,
                                                        callers[p].targetHeight)
    /\ \A h \in DOMAIN commitCalls : NumCommitted(h) <= 1

\* one goroutine has committed its block and is about to release the mutex
\* while another one waits in Flush with a block of the same height
ConcurrentFlushOfSameHeight ==
    \E p, q \in Procs :
        /\ p # q
        /\ callers[p].pc = "unlock" /\ callers[p].res = bCheckinValid
        /\ callers[p].ret
        /\ callers[q].pc = "lock"
        /\ callers[q].blk.height = callers[p].blk.height

\* C21: calcEpochNumAndHeight produces an outcome for every tip and every
\* value of NumDelegatesPerEpoch, 0 included: an (epochNum, epochHeight) pair
\* or an error of the chain or of the pool, never a division by zero.
CalcEpochNeverAborts ==
    roll.calc.called =>
        \/ roll.calc.out.err = ErrNone /\ roll.calc.out.epochNum >= 1
        \/ roll.calc.out.err \in {ErrChain, ErrPool}

\* C22: rotation is a round-robin: with a fixed non-empty list of n
\* delegates, any n consecutive heights are proposed by n different
\* delegates, each delegate of the list once, and the proposers of heights h
\* and h+n are the same.
RotationIsRoundRobin ==
    LET n == NumDelegates
        ps == roll.proposers
    IN n > 0 =>
          /\ \A i \in 1..Len(ps) :
                 (i + n - 1 <= Len(ps)) =>
                     {ps[k] : k \in i..(i + n - 1)} =
                         {roll.delegates[k] : k \in 1..n}
          /\ \A i \in 1..Len(ps) : (i + n <= Len(ps)) => ps[i] = ps[i + n]

\* two full rotations through a list of several delegates
TwoFullRotations ==
    /\ NumDelegates >= 2
    /\ Len(roll.proposers) = 2 * NumDelegates

\* ------------------------------------------------------------ rewarding
Recognised(act) ==
    /\ act.type \in {"SetReward", "DepositToRewardingFund",
                      "ClaimFromRewardingFund", "GrantReward"}
    /\ act.rewardType # "other reward type"

\* C23: for every recognised action Handle returns a nil error and a
\* receipt whose status is 1 when the operation, the gas deposit or the
\* nonce update failed, and 0 only when all of them succeeded.
FailureIsReportedInReceipt ==
    (rewarding.last.called /\ Recognised(rewarding.last.act)) =>
        /\ rewarding.last.err = NilError
        /\ rewarding.last.receipt # NilReceipt
        /\ rewarding.last.receipt.Status =
               IF \/ rewarding.last.opFailed
                  \/ rewarding.last.gasFailed
                  \/ rewarding.last.nonceFailed
               THEN 1 ELSE 0

\* --------------------------------------------------------- ChainService
\* the start order the claim names, and the components of it a service has
ClaimedStartOrder ==
    <<"indexservice", "chain", "consensus", "blocksync", "explorer", "api",
      "indexBuilder">>
IsPresent(c) == c \in svc.present
ExpectedStarts == SelectSeq(ClaimedStartOrder, IsPresent)
Position(log, c) == CHOOSE i \in 1..Len(log) : log[i].component = c
InLog(log, c) == \E i \in 1..Len(log) : log[i].component = c

\* C24: Start starts the components in the order index service, chain,
\* consensus, block sync, explorer, API, index builder, stops at the first
\* start that fails, returns that error and starts nothing after it, so
\* consensus and block sync are started only after the chain started; Stop
\* stops the chain only after consensus and block sync stopped successfully.
StartAndStopInOrder ==
    /\ svc.start.called =>
           LET log == svc.start.log
           IN /\ Len(log) <= Len(ExpectedStarts)
              /\ \A i \in 1..Len(log) :
                     /\ log[i].component = ExpectedStarts[i]
                     /\ i < Len(log) => log[i].ok
              /\ IF svc.start.err = NoComponent
                 THEN /\ Len(log) = Len(ExpectedStarts)
                      /\ \A i \in 1..Len(log) : log[i].ok
                 ELSE /\ log # <<>>
                      /\ log[Len(log)] = [component |-> svc.start.err, ok |-> FALSE]
              /\ \A c \in {"consensus", "blocksync"} :
                     InLog(log, c) =>
                         /\ InLog(log, "chain")
                         /\ Position(log, "chain") < Position(log, c)
                         /\ log[Position(log, "chain")].ok
    /\ svc.stop.called =>
           LET log == svc.stop.log
           IN InLog(log, "chain") =>
                  \A c \in {"consensus", "blocksync"} :
                      /\ InLog(log, c)
                      /\ Position(log, c) < Position(log, "chain")
                      /\ log[Position(log, c)].ok

\* Start gave up at the chain after the index service, and a Stop got as far
\* as the chain
StartFailedAtChainAndStopReachedChain ==
    /\ svc.start.called /\ svc.start.err = "chain"
    /\ Len(svc.start.log) = 2
    /\ svc.stop.called /\ InLog(svc.stop.log, "chain")

====
